---- MODULE Spec2Model ----
(***************************************************************************)
(* Model of the free-draw stroke element (class FreeDraw and the free      *)
(* functions moveFreeDraw, resizeFreeDraw, initRect, calculateRect).       *)
(*                                                                         *)
(* Numbers.  Every coordinate, distance, scale factor and rectangle field  *)
(* is a JavaScript number, i.e. a binary floating-point value whose        *)
(* arithmetic rounds to nearest, ties to even.  The model keeps that       *)
(* behaviour at a reduced width: a value is an integer count of            *)
(* 1/Unit steps (Unit = 2^FracBits) that has at most Prec significant      *)
(* bits; FRound rounds an exact rational to the nearest such value.        *)
(* +Infinity, -Infinity and NaN are three reserved integers.                *)
(*                                                                         *)
(* Speeds are counted in steps of 10^-SpeedDigits (the result of           *)
(* toFixed(5)); widths are exact rationals counted in steps of 1/WScale.   *)
(***************************************************************************)
EXTENDS Integers, Sequences, FiniteSets, TLC

VARIABLES
  instance,  \* the FreeDraw: its fields positions, lineWidths, lastMoveTime,
             \* lastLineWidth, rect, maxWidth and minWidth
  now,       \* the clock, Date.now()
  call,      \* the last call made on the instance, with its arguments
  pre,       \* the instance as it was before that call
  ops        \* the number of moveFreeDraw and resizeFreeDraw calls made

vars == <<instance, now, call, pre, ops>>

----------------------------------------------------------------------------
(* Bounds of the model *)

\* significant bits of a number
Prec == 4
\* fractional bits of the smallest step of a number
FracBits == 1
\* most positions a stroke holds
MaxLen == 3
\* most moveFreeDraw / resizeFreeDraw calls in a run
MaxOps == 1
\* most milliseconds the clock advances in a run
MaxElapsed == 1
\* largest magnitude of a coordinate, in whole units
MaxCoord == 32
\* the clock value (Date.now()) when the stroke is constructed
StartTime == 1000

----------------------------------------------------------------------------
(* Arithmetic *)

RECURSIVE Pow(_, _)
Pow(b, n) == IF n = 0 THEN 1 ELSE b * Pow(b, n - 1)

Unit == Pow(2, FracBits)

\* the number n (an integer) as a count of steps
F(n) == n * Unit

\* largest magnitude of a coordinate the model follows
MaxAbs == F(MaxCoord)

\* the three values that are not finite: integers no finite value reaches
Infinity == Pow(2, 30)
NegInfinity == -Infinity
NaN == Infinity + 1

Abs(n) == IF n < 0 THEN -n ELSE n

\* nearest integer to n / m (m > 0), ties to the even one
RoundHalfEven(n, m) ==
  LET fl == n \div m
      r  == n % m
  IN  IF 2 * r < m THEN fl
      ELSE IF 2 * r > m THEN fl + 1
      ELSE IF fl % 2 = 0 THEN fl ELSE fl + 1

\* nearest integer to n / m (m > 0, n >= 0), ties upward
RoundHalfUp(n, m) ==
  LET fl == n \div m
      r  == n % m
  IN  IF 2 * r < m THEN fl ELSE fl + 1

\* the least magnitude, in steps, that does not fit Prec significant bits
Limit == Pow(2, Prec)

\* the spacing of the numbers around a value of magnitude mag / den
RECURSIVE Quantum(_, _, _)
Quantum(mag, den, q) ==
  IF mag < Limit * q * den THEN q ELSE Quantum(mag, den, 2 * q)

\* the number nearest to the exact value num / den (in steps), den > 0
FRound(num, den) ==
  LET q == Quantum(Abs(num), den, 1)
  IN  q * RoundHalfEven(num, q * den)

FAdd(a, b) == FRound(a + b, 1)
FSub(a, b) == FRound(a - b, 1)
FMul(a, b) == FRound(a * b, Unit)

\* a < b and a > b on numbers that may be infinite
FLt(a, b) ==
  IF a = Infinity \/ b = NegInfinity THEN FALSE
  ELSE IF a = NegInfinity \/ b = Infinity THEN TRUE
  ELSE a < b
FGt(a, b) == FLt(b, a)

\* nearest integer to the square root of n >= 0
ISqrt(n) ==
  CHOOSE r \in 0..(4 * MaxAbs) :
    /\ (IF r = 0 THEN 0 ELSE (2 * r - 1) * (2 * r - 1)) <= 4 * n
    /\ 4 * n < (2 * r + 1) * (2 * r + 1)

----------------------------------------------------------------------------
(* Program constants *)

\* digits kept by toFixed in _computedSpeed
SpeedDigits == 5
\* steps of a speed per unit of speed
SpeedScale == Pow(10, SpeedDigits)

maxSpeed == 10 * SpeedScale
minSpeed == SpeedScale \div 2

\* steps of a width per unit of width: (speed / maxSpeed) * maxWidth and
\* MaxLen applications of the 1/3 : 2/3 smoothing stay exact
WScale == maxSpeed * Pow(3, MaxLen)

\* imported from '../constants'; its value is not part of the sources
RECT_MIN_SIZE == F(3)

BOTTOM_RIGHT == "BOTTOM_RIGHT"
BOTTOM_LEFT == "BOTTOM_LEFT"
TOP_LEFT == "TOP_LEFT"
TOP_RIGHT == "TOP_RIGHT"
RESIZE_TYPE == {BOTTOM_RIGHT, BOTTOM_LEFT, TOP_LEFT, TOP_RIGHT}

----------------------------------------------------------------------------
(* Inputs *)

\* constructor argument width
Widths == {10}

\* pointer samples: (6, 4) and (1/2, 3/2) when FracBits = 1
Points == { [x |-> F(6), y |-> F(4)], [x |-> 1, y |-> 3] }

\* moveFreeDraw arguments (xDistance, yDistance): a shift and its reverse
Distances == { [x |-> F(8), y |-> 3], [x |-> -F(8), y |-> -3] }

\* resizeFreeDraw scale factors (scaleX, scaleY): shrink one axis to 1/2
\* and stretch the other to 2
ScalePairs == { [x |-> Unit \div 2, y |-> F(2)], [x |-> F(2), y |-> Unit \div 2] }

\* a FreeDrawRect with the given origin and size
ElementRect(x, y, width, height) ==
  [width |-> width, height |-> height, x |-> x, y |-> y,
   minX |-> x, maxX |-> FAdd(x, width), minY |-> y, maxY |-> FAdd(y, height)]

\* resizeFreeDraw target rectangles besides the stroke's own box
TargetRects == { ElementRect(1, -11, F(4), F(8)) }

\* resizeFreeDraw arguments (scaleX, scaleY, rect) for a stroke whose box is
\* r: the identity resize onto its own box, and the scale pairs onto the
\* target rectangles
ResizeInputs(r) ==
  { [scaleX |-> Unit, scaleY |-> Unit, rect |-> r] } \cup
  { [scaleX |-> s.x, scaleY |-> s.y, rect |-> t] :
      s \in ScalePairs, t \in TargetRects }

----------------------------------------------------------------------------
(* Bounding box *)

initRect ==
  [width |-> 0, height |-> 0, x |-> 0, y |-> 0,
   minX |-> Infinity, maxX |-> NegInfinity,
   minY |-> Infinity, maxY |-> NegInfinity]

calculateRect(r, position) ==
  LET x == position.x
      y == position.y
      minX == IF FLt(x, r.minX) THEN x ELSE r.minX
      maxX == IF FGt(x, r.maxX) THEN x ELSE r.maxX
      minY == IF FLt(y, r.minY) THEN y ELSE r.minY
      maxY == IF FGt(y, r.maxY) THEN y ELSE r.maxY
  IN  [minX |-> minX, maxX |-> maxX, minY |-> minY, maxY |-> maxY,
       x |-> minX, y |-> minY,
       width |-> FSub(maxX, minX), height |-> FSub(maxY, minY)]

\* positions.forEach(position => calculateRect(instance, position)),
\* from the i-th position on
RECURSIVE forEachCalculateRect(_, _, _)
forEachCalculateRect(r, ps, i) ==
  IF i > Len(ps) THEN r
  ELSE forEachCalculateRect(calculateRect(r, ps[i]), ps, i + 1)

----------------------------------------------------------------------------
(* FreeDraw *)

\* variant of constructor: no placeholder width at index 0
constructorNoPlaceholder(width) ==
  [positions |-> << >>, lineWidths |-> << >>,
   lastMoveTime |-> 0, lastLineWidth |-> width * WScale,
   rect |-> initRect,
   maxWidth |-> width * WScale, minWidth |-> (width * WScale) \div 2]

constructor(width) ==
  [positions |-> << >>, lineWidths |-> <<0>>,
   lastMoveTime |-> 0, lastLineWidth |-> width * WScale,
   rect |-> initRect,
   maxWidth |-> width * WScale, minWidth |-> (width * WScale) \div 2]

\* Euclidean distance of two positions, imported from '../common'
getDistance(start, end) ==
  LET dx == start.x - end.x
      dy == start.y - end.y
  IN  FRound(ISqrt(dx * dx + dy * dy), 1)

\* the speed returned and the lastMoveTime stored
computedSpeed(inst, start, end, curTime) ==
  LET moveDistance == getDistance(start, end)
      moveTime == curTime - inst.lastMoveTime
      mouseSpeed ==
        IF moveTime = 0
        THEN (IF moveDistance = 0 THEN NaN ELSE Infinity)
        ELSE RoundHalfUp(moveDistance * SpeedScale, Unit * moveTime)
  IN  [mouseSpeed |-> mouseSpeed, lastMoveTime |-> curTime]

\* comparisons of a speed that may be NaN or Infinity with a finite bound
SpeedGeq(speed, bound) ==
  IF speed = NaN THEN FALSE ELSE IF speed = Infinity THEN TRUE
  ELSE speed >= bound
SpeedLeq(speed, bound) ==
  IF speed = NaN \/ speed = Infinity THEN FALSE ELSE speed <= bound

\* lineWidth before the smoothing
rawLineWidth(inst, speed) ==
  IF SpeedGeq(speed, maxSpeed) THEN inst.minWidth
  ELSE IF SpeedLeq(speed, minSpeed) THEN inst.maxWidth
  ELSE IF speed = NaN THEN NaN
  ELSE inst.maxWidth - speed * (inst.maxWidth \div maxSpeed)

\* lineWidth * (1 / 3) + lastLineWidth * (2 / 3)
smooth(lineWidth, last) ==
  IF lineWidth = NaN \/ last = NaN THEN NaN
  ELSE (lineWidth \div 3) + 2 * (last \div 3)

\* the width returned, which is also the lastLineWidth stored
computedLineWidth(inst, speed) ==
  smooth(rawLineWidth(inst, speed), inst.lastLineWidth)

\* variant of addPosition: the width is pushed from the third sample on
addPositionLate(inst, position, curTime) ==
  LET ps == Append(inst.positions, position)
      r  == calculateRect(inst.rect, position)
  IN  IF Len(ps) > 2
      THEN LET sp == computedSpeed(inst, ps[Len(ps) - 1], ps[Len(ps)], curTime)
               lineWidth == computedLineWidth(inst, sp.mouseSpeed)
           IN  [inst EXCEPT !.positions = ps, !.rect = r,
                            !.lastMoveTime = sp.lastMoveTime,
                            !.lastLineWidth = lineWidth,
                            !.lineWidths = Append(inst.lineWidths, lineWidth)]
      ELSE [inst EXCEPT !.positions = ps, !.rect = r]

addPosition(inst, position, curTime) ==
  LET ps == Append(inst.positions, position)
      r  == calculateRect(inst.rect, position)
  IN  IF Len(ps) > 1
      THEN LET sp == computedSpeed(inst, ps[Len(ps) - 1], ps[Len(ps)], curTime)
               lineWidth == computedLineWidth(inst, sp.mouseSpeed)
           IN  [inst EXCEPT !.positions = ps, !.rect = r,
                            !.lastMoveTime = sp.lastMoveTime,
                            !.lastLineWidth = lineWidth,
                            !.lineWidths = Append(inst.lineWidths, lineWidth)]
      ELSE [inst EXCEPT !.positions = ps, !.rect = r]

----------------------------------------------------------------------------
(* Transforms *)

\* variant of moveFreeDraw: the box is not reset before the positions are
\* folded into it
moveFreeDrawNoInit(inst, xDistance, yDistance) ==
  LET ps == [i \in 1..Len(inst.positions) |->
               [x |-> FAdd(inst.positions[i].x, xDistance),
                y |-> FAdd(inst.positions[i].y, yDistance)]]
  IN  [inst EXCEPT !.positions = ps,
                   !.rect = forEachCalculateRect(inst.rect, ps, 1)]

\* variant of moveFreeDraw: the shifted coordinates are snapped to whole
\* numbers (Math.round)
moveFreeDrawRounded(inst, xDistance, yDistance) ==
  LET ps == [i \in 1..Len(inst.positions) |->
               [x |-> F(RoundHalfUp(FAdd(inst.positions[i].x, xDistance), Unit)),
                y |-> F(RoundHalfUp(FAdd(inst.positions[i].y, yDistance), Unit))]]
  IN  [inst EXCEPT !.positions = ps,
                   !.rect = forEachCalculateRect(initRect, ps, 1)]

moveFreeDraw(inst, xDistance, yDistance) ==
  LET ps == [i \in 1..Len(inst.positions) |->
               [x |-> FAdd(inst.positions[i].x, xDistance),
                y |-> FAdd(inst.positions[i].y, yDistance)]]
  IN  [inst EXCEPT !.positions = ps,
                   !.rect = forEachCalculateRect(initRect, ps, 1)]

\* variant of resizeRefused: the height is not looked at
resizeRefusedWidthOnly(inst, scaleX, scaleY) ==
  inst.rect.width <= RECT_MIN_SIZE /\ scaleX < Unit

\* the guard of resizeFreeDraw: the call returns at once
resizeRefused(inst, scaleX, scaleY) ==
  \/ (inst.rect.width <= RECT_MIN_SIZE /\ scaleX < Unit)
  \/ (inst.rect.height <= RECT_MIN_SIZE /\ scaleY < Unit)

\* the positions after the first pass of resizeFreeDraw
scaledPositions(inst, scaleX, scaleY) ==
  [i \in 1..Len(inst.positions) |->
     [x |-> FMul(inst.positions[i].x, scaleX),
      y |-> FMul(inst.positions[i].y, scaleY)]]

\* variant of resizeOffset: the right and bottom edges of the scaled box are
\* taken without its width and height
resizeOffsetNoSize(new, target, resizeType) ==
  IF resizeType = BOTTOM_RIGHT
  THEN [x |-> FSub(new.x, target.x), y |-> FSub(new.y, target.y)]
  ELSE IF resizeType = BOTTOM_LEFT
  THEN [x |-> FSub(new.x, FAdd(target.x, target.width)),
        y |-> FSub(new.y, target.y)]
  ELSE IF resizeType = TOP_LEFT
  THEN [x |-> FSub(new.x, FAdd(target.x, target.width)),
        y |-> FSub(new.y, FAdd(target.y, target.height))]
  ELSE IF resizeType = TOP_RIGHT
  THEN [x |-> FSub(new.x, target.x),
        y |-> FSub(new.y, FAdd(target.y, target.height))]
  ELSE [x |-> 0, y |-> 0]

\* (offsetX, offsetY) of resizeFreeDraw: new is the box after the first pass
resizeOffset(new, target, resizeType) ==
  IF resizeType = BOTTOM_RIGHT
  THEN [x |-> FSub(new.x, target.x), y |-> FSub(new.y, target.y)]
  ELSE IF resizeType = BOTTOM_LEFT
  THEN [x |-> FSub(FAdd(new.x, new.width), FAdd(target.x, target.width)),
        y |-> FSub(new.y, target.y)]
  ELSE IF resizeType = TOP_LEFT
  THEN [x |-> FSub(FAdd(new.x, new.width), FAdd(target.x, target.width)),
        y |-> FSub(FAdd(new.y, new.height), FAdd(target.y, target.height))]
  ELSE IF resizeType = TOP_RIGHT
  THEN [x |-> FSub(new.x, target.x),
        y |-> FSub(FAdd(new.y, new.height), FAdd(target.y, target.height))]
  ELSE [x |-> 0, y |-> 0]

\* variant of resizeFreeDraw: the second pass adds the offset
resizeFreeDrawAddOffset(inst, scaleX, scaleY, target, resizeType) ==
  IF resizeRefused(inst, scaleX, scaleY) THEN inst
  ELSE
    LET scaled == scaledPositions(inst, scaleX, scaleY)
        new    == forEachCalculateRect(initRect, scaled, 1)
        offset == resizeOffset(new, target, resizeType)
        ps     == [i \in 1..Len(scaled) |->
                     [x |-> FAdd(scaled[i].x, offset.x),
                      y |-> FAdd(scaled[i].y, offset.y)]]
    IN  [inst EXCEPT !.positions = ps,
                     !.rect = forEachCalculateRect(initRect, ps, 1)]

resizeFreeDraw(inst, scaleX, scaleY, target, resizeType) ==
  IF resizeRefused(inst, scaleX, scaleY) THEN inst
  ELSE
    LET scaled == scaledPositions(inst, scaleX, scaleY)
        new    == forEachCalculateRect(initRect, scaled, 1)
        offset == resizeOffset(new, target, resizeType)
        ps     == [i \in 1..Len(scaled) |->
                     [x |-> FSub(scaled[i].x, offset.x),
                      y |-> FSub(scaled[i].y, offset.y)]]
    IN  [inst EXCEPT !.positions = ps,
                     !.rect = forEachCalculateRect(initRect, ps, 1)]

----------------------------------------------------------------------------
(* The state machine *)

\* every coordinate of inst is within the range the model follows
InRange(inst) ==
  \A i \in 1..Len(inst.positions) :
    /\ Abs(inst.positions[i].x) <= MaxAbs
    /\ Abs(inst.positions[i].y) <= MaxAbs

Init ==
  \E width \in Widths :
    /\ instance = constructor(width)
    /\ now = StartTime
    /\ call = [op |-> "constructor", width |-> width]
    /\ pre = constructor(width)
    /\ ops = 0

\* the clock advances by a millisecond; only addPosition reads it, and the
\* model follows it while a position can still be added
Tick ==
  /\ now < StartTime + MaxElapsed
  /\ Len(instance.positions) < MaxLen
  /\ now' = now + 1
  /\ UNCHANGED <<instance, call, pre, ops>>

AddPosition(position) ==
  /\ Len(instance.positions) < MaxLen
  /\ instance' = addPosition(instance, position, now)
  /\ call' = [op |-> "addPosition", position |-> position, curTime |-> now]
  /\ pre' = instance
  /\ UNCHANGED <<now, ops>>

MoveFreeDraw(xDistance, yDistance) ==
  /\ ops < MaxOps
  /\ instance' = moveFreeDraw(instance, xDistance, yDistance)
  /\ InRange(instance')
  /\ call' = [op |-> "moveFreeDraw", xDistance |-> xDistance,
              yDistance |-> yDistance]
  /\ pre' = instance
  /\ ops' = ops + 1
  /\ UNCHANGED now

ResizeFreeDraw(scaleX, scaleY, target, resizeType) ==
  /\ ops < MaxOps
  /\ instance' = resizeFreeDraw(instance, scaleX, scaleY, target, resizeType)
  /\ InRange(instance')
  /\ call' = [op |-> "resizeFreeDraw", scaleX |-> scaleX, scaleY |-> scaleY,
              rect |-> target, resizeType |-> resizeType]
  /\ pre' = instance
  /\ ops' = ops + 1
  /\ UNCHANGED now

Next ==
  \/ Tick
  \/ \E position \in Points : AddPosition(position)
  \/ \E d \in Distances : MoveFreeDraw(d.x, d.y)
  \/ \E in \in ResizeInputs(instance.rect), resizeType \in RESIZE_TYPE :
       ResizeFreeDraw(in.scaleX, in.scaleY, in.rect, resizeType)

Spec == Init /\ [][Next]_vars

----------------------------------------------------------------------------
(* Properties *)

MinOf(S) == CHOOSE m \in S : \A n \in S : m <= n
MaxOf(S) == CHOOSE m \in S : \A n \in S : m >= n
Xs(ps) == { ps[i].x : i \in 1..Len(ps) }
Ys(ps) == { ps[i].y : i \in 1..Len(ps) }
Last(ps) == ps[Len(ps)]

\* the condition under which a resize is refused, on the box r
Guarded(r, scaleX, scaleY) ==
  \/ (r.width <= RECT_MIN_SIZE /\ scaleX < Unit)
  \/ (r.height <= RECT_MIN_SIZE /\ scaleY < Unit)

\* the last call was a resizeFreeDraw that the guard let through
ResizeActed ==
  /\ call.op = "resizeFreeDraw"
  /\ ~Guarded(pre.rect, call.scaleX, call.scaleY)

\* the speed and the pre-smoothing width of the last addPosition call,
\* which was not the first of the stroke
lastSpeed ==
  computedSpeed(pre, Last(pre.positions), call.position, call.curTime).mouseSpeed
lastRawWidth == rawLineWidth(pre, lastSpeed)

\* C1: a stroke that holds a position has the box of its positions: minX,
\* maxX, minY, maxY are the least and greatest x and y, x = minX, y = minY,
\* width = maxX - minX and height = maxY - minY (the subtraction of the code)
BoxMatchesPositions ==
  Len(instance.positions) >= 1 =>
    /\ instance.rect.minX = MinOf(Xs(instance.positions))
    /\ instance.rect.maxX = MaxOf(Xs(instance.positions))
    /\ instance.rect.minY = MinOf(Ys(instance.positions))
    /\ instance.rect.maxY = MaxOf(Ys(instance.positions))
    /\ instance.rect.x = instance.rect.minX
    /\ instance.rect.y = instance.rect.minY
    /\ instance.rect.width = FSub(instance.rect.maxX, instance.rect.minX)
    /\ instance.rect.height = FSub(instance.rect.maxY, instance.rect.minY)

\* a stroke of two positions and a box with an area, after a resize that
\* changed it
BoxMatchesPositionsWitness ==
  /\ Len(instance.positions) >= 2
  /\ ResizeActed
  /\ instance.positions # pre.positions
  /\ instance.rect.width > 0 /\ instance.rect.height > 0

\* C2: once a position has been added there are as many widths as positions
WidthPerPosition ==
  Len(instance.positions) >= 1 => Len(instance.lineWidths) = Len(instance.positions)

\* a stroke of at least two positions that was moved afterwards
WidthPerPositionWitness ==
  /\ Len(instance.positions) >= 2
  /\ call.op = "moveFreeDraw"

\* C3: a sample with the coordinates and the time of the one before it gets
\* the pre-smoothing width minWidth, and no width is ever NaN
IndeterminateSpeedIsFast ==
  /\ instance.lastLineWidth # NaN
  /\ \A i \in 1..Len(instance.lineWidths) : instance.lineWidths[i] # NaN
  /\ (/\ call.op = "addPosition"
      /\ Len(pre.positions) >= 1
      /\ call.position = Last(pre.positions)
      /\ call.curTime = pre.lastMoveTime)
     => lastRawWidth = pre.minWidth

\* C4: a resize on a box no wider than RECT_MIN_SIZE with scaleX < 1, or no
\* higher than RECT_MIN_SIZE with scaleY < 1, leaves the stroke as it was
RefusedResizeChangesNothing ==
  (/\ call.op = "resizeFreeDraw"
   /\ Guarded(pre.rect, call.scaleX, call.scaleY))
  => instance = pre

\* a stroke of two positions, wide enough but not high enough, asked to
\* shrink in height only
RefusedResizeWitness ==
  /\ call.op = "resizeFreeDraw"
  /\ Len(instance.positions) >= 2
  /\ pre.rect.width > RECT_MIN_SIZE
  /\ pre.rect.height <= RECT_MIN_SIZE
  /\ call.scaleX >= Unit
  /\ call.scaleY < Unit

\* no coordinate of inst is rounded when the distances are added to it
MoveExact(inst, xDistance, yDistance) ==
  \A i \in 1..Len(inst.positions) :
    /\ FAdd(inst.positions[i].x, xDistance) = inst.positions[i].x + xDistance
    /\ FAdd(inst.positions[i].y, yDistance) = inst.positions[i].y + yDistance

\* the stroke after moveFreeDraw(xDistance, yDistance) followed by
\* moveFreeDraw(-xDistance, -yDistance)
MoveRoundTrip(inst, xDistance, yDistance) ==
  moveFreeDraw(moveFreeDraw(inst, xDistance, yDistance), -xDistance, -yDistance)

\* C5 as stated: a move followed by the reverse move restores the stroke,
\* whatever the stroke and the distances
MoveRoundTripRestores ==
  \A d \in Distances : MoveRoundTrip(instance, d.x, d.y) = instance

\* C5: a move followed by the reverse move leaves the widths and the time
\* as they were, and restores the positions and the box when the additions
\* of the first move are exact
MoveRoundTripRestoresWhenExact ==
  \A d \in Distances :
    LET after == MoveRoundTrip(instance, d.x, d.y)
    IN  /\ after.lineWidths = instance.lineWidths
        /\ after.lastLineWidth = instance.lastLineWidth
        /\ after.lastMoveTime = instance.lastMoveTime
        /\ MoveExact(instance, d.x, d.y) => after = instance

\* the first move of a round trip has acted, without rounding, on a stroke
\* of two positions that had been added at different times, and the
\* reverse move leads back to that stroke
MoveRoundTripWitness ==
  /\ call.op = "moveFreeDraw"
  /\ Len(instance.positions) >= 2
  /\ instance.rect.width > 0
  /\ instance.lastMoveTime > StartTime
  /\ MoveExact(pre, call.xDistance, call.yDistance)
  /\ moveFreeDraw(instance, -call.xDistance, -call.yDistance) = pre

\* C6: a resize with both scales 1 onto the stroke's own box leaves the
\* positions and the box as they were, for each corner
IdentityResize ==
  (/\ call.op = "resizeFreeDraw"
   /\ call.scaleX = Unit /\ call.scaleY = Unit
   /\ call.rect = pre.rect)
  => /\ instance.positions = pre.positions
     /\ instance.rect = pre.rect

\* such a resize, anchored at the top-left corner handle, of a stroke of
\* two positions whose box has an area and is not at the origin
IdentityResizeWitness ==
  /\ call.op = "resizeFreeDraw"
  /\ call.scaleX = Unit /\ call.scaleY = Unit
  /\ call.rect = pre.rect
  /\ call.resizeType = TOP_LEFT
  /\ Len(instance.positions) >= 2
  /\ instance.rect.width > 0 /\ instance.rect.height > 0
  /\ instance.rect.x # 0

\* C7 as stated: there are always as many widths as positions
WidthPerPositionAlways ==
  Len(instance.lineWidths) = Len(instance.positions)

\* C7: there are as many widths as positions, but one width (the
\* placeholder) while the stroke has no position
WidthPerPositionOrPlaceholder ==
  Len(instance.lineWidths) =
    (IF Len(instance.positions) = 0 THEN 1 ELSE Len(instance.positions))

\* the state right after construction
PlaceholderWitness ==
  /\ call.op = "constructor"
  /\ Len(instance.positions) = 0
  /\ instance.lineWidths = <<0>>

\* the anchored corner of box lies on the same corner of target
CornerMatches(box, target, resizeType) ==
  /\ resizeType \in {BOTTOM_RIGHT, TOP_RIGHT} => box.x = target.x
  /\ resizeType \in {BOTTOM_RIGHT, BOTTOM_LEFT} => box.y = target.y
  /\ resizeType \in {BOTTOM_LEFT, TOP_LEFT} =>
       box.x + box.width = target.x + target.width
  /\ resizeType \in {TOP_LEFT, TOP_RIGHT} =>
       box.y + box.height = target.y + target.height

\* no operation of the resize after the scaling is rounded: the offsets,
\* their subtraction from the positions, and the sizes of the boxes that
\* enter the corner
CorrectionExact(inst, scaleX, scaleY, target, resizeType) ==
  LET scaled == scaledPositions(inst, scaleX, scaleY)
      new    == forEachCalculateRect(initRect, scaled, 1)
      offset == resizeOffset(new, target, resizeType)
      right  == resizeType \in {BOTTOM_LEFT, TOP_LEFT}
      top    == resizeType \in {TOP_LEFT, TOP_RIGHT}
      after  == resizeFreeDraw(inst, scaleX, scaleY, target, resizeType).rect
  IN  /\ right => /\ new.width = new.maxX - new.minX
                  /\ after.width = after.maxX - after.minX
      /\ top => /\ new.height = new.maxY - new.minY
                /\ after.height = after.maxY - after.minY
      /\ offset.x = (IF right THEN (new.x + new.width) - (target.x + target.width)
                              ELSE new.x - target.x)
      /\ offset.y = (IF top THEN (new.y + new.height) - (target.y + target.height)
                            ELSE new.y - target.y)
      /\ \A i \in 1..Len(scaled) :
           /\ FSub(scaled[i].x, offset.x) = scaled[i].x - offset.x
           /\ FSub(scaled[i].y, offset.y) = scaled[i].y - offset.y

\* C8 as stated: after a resize that was not refused, of a stroke with a
\* position, the anchored corner of the box is that corner of the target
AnchoredCornerOnTarget ==
  (ResizeActed /\ Len(pre.positions) >= 1)
  => CornerMatches(instance.rect, call.rect, call.resizeType)

\* C8: the same, when no operation after the scaling was rounded
AnchoredCornerOnTargetWhenExact ==
  (/\ ResizeActed
   /\ Len(pre.positions) >= 1
   /\ CorrectionExact(pre, call.scaleX, call.scaleY, call.rect, call.resizeType))
  => CornerMatches(instance.rect, call.rect, call.resizeType)

\* a resize that scaled a stroke of two positions onto another rectangle,
\* anchored at the top-right corner handle, without rounding after the
\* scaling
AnchoredCornerWitness ==
  /\ ResizeActed
  /\ Len(pre.positions) >= 2
  /\ call.scaleX # Unit
  /\ call.rect # pre.rect
  /\ call.resizeType = TOP_RIGHT
  /\ instance.positions # pre.positions
  /\ CorrectionExact(pre, call.scaleX, call.scaleY, call.rect, call.resizeType)

\* C9: an addPosition call leaves lastMoveTime at the clock time of the call
SampleTimeRecorded ==
  call.op = "addPosition" => instance.lastMoveTime = call.curTime

\* C10: the pre-smoothing width of a finite speed lies between minWidth and
\* maxWidth, and so do the widths stored at index >= 1 and lastLineWidth
WidthsWithinBounds ==
  /\ (/\ call.op = "addPosition"
      /\ Len(pre.positions) >= 1
      /\ lastSpeed \notin {NaN, Infinity})
     => (instance.minWidth <= lastRawWidth /\ lastRawWidth <= instance.maxWidth)
  /\ \A i \in 2..Len(instance.lineWidths) :
       instance.lineWidths[i] # NaN =>
         /\ instance.minWidth <= instance.lineWidths[i]
         /\ instance.lineWidths[i] <= instance.maxWidth
  /\ instance.lastLineWidth # NaN =>
       /\ instance.minWidth <= instance.lastLineWidth
       /\ instance.lastLineWidth <= instance.maxWidth

====
